---- MODULE Spec2Model ----
(***************************************************************************)
(* Model of the AirSync receiver's calibration subsystem:                  *)
(*   - the latency applier (receiver-core/src/calibration/mod.rs) with the *)
(*     f32 arithmetic and the "{:.3}" rendering of airplay/config.rs,      *)
(*   - the calibration scheduler of receiver-core/src/http.rs (the single  *)
(*     pending-playback slot, the Request and Ready handlers and the       *)
(*     detached wait-then-play task).                                      *)
(***************************************************************************)
EXTENDS Integers, Sequences, FiniteSets, TLC

(***************************************************************************)
(* Bounds of the model.                                                    *)
(***************************************************************************)
\* measured latencies are the whole milliseconds -MaxLatencyMs..MaxLatencyMs
MaxLatencyMs == 260
\* number of calibration/request and calibration/ready calls in one behaviour
MaxCalls == 3
\* number of times the wall clock is seen to advance in one behaviour
MaxTicks == 2
\* width of the model's u64 (the program's is 64); U64Max stands for u64::MAX
U64Bits == 14
\* now_millis() when the service starts (any instant after the epoch)
StartTime == 1
\* longest chirp sweep that is generated, in ms
MaxChirpMs == 100
\* most repetitions of a chirp
MaxRepetitions == 2

(***************************************************************************)
(* Program constants.                                                      *)
(***************************************************************************)
\* calibration/mod.rs:98   effective_latency_ms.clamp(-250.0, 250.0)
ClampLimitMs == 250
\* http.rs:160   req.delay_ms.unwrap_or(2_000)
DefaultDelayMs == 2000
\* f32: 24 bits of significand
F32Precision == 24

\* Option<T>: None is the empty sequence, Some(v) the one-element sequence
None == <<>>
Some(v) == <<v>>
\* Option::unwrap_or
UnwrapOr(o, d) == IF o = <<>> THEN d ELSE o[1]

(***************************************************************************)
(* f32 arithmetic.  A finite f32 is sign * m * 2^e with m = 0 or           *)
(* 2^23 <= m < 2^24 (subnormals and the exponent range are out of reach    *)
(* for the magnitudes of this program).  Every operation rounds the exact  *)
(* result to nearest, ties to even, as IEEE 754 binary32 does.             *)
(***************************************************************************)
F32Hidden == 2 ^ (F32Precision - 1)
F32Top == 2 ^ F32Precision

F32Zero(neg) == [neg |-> neg, m |-> 0, e |-> 0]

RECURSIVE F32NormUp(_, _)
\* shift a nonzero integer significand below 2^24 up to 24 bits
F32NormUp(m, e) == IF m >= F32Hidden THEN <<m, e>> ELSE F32NormUp(2 * m, e - 1)

\* the f32 whose value is the integer n, |n| < 2^24 (exactly representable)
F32FromInt(n) ==
    IF n = 0 THEN F32Zero(FALSE)
    ELSE LET a == IF n < 0 THEN -n ELSE n
             p == F32NormUp(a, 0)
         IN [neg |-> n < 0, m |-> p[1], e |-> p[2]]

\* q ulps after rounding: carry into the next binade when the significand overflows
F32Pack(neg, q, e) ==
    IF q = F32Top THEN [neg |-> neg, m |-> F32Hidden, e |-> e + 1]
    ELSE [neg |-> neg, m |-> q, e |-> e]

\* round-to-nearest, ties-to-even of num / den for positive integers
RoundHalfEven(num, den) ==
    LET q == num \div den
        r == num % den
    IN IF 2 * r > den THEN q + 1
       ELSE IF 2 * r < den THEN q
       ELSE IF q % 2 = 1 THEN q + 1 ELSE q

\* unary minus on f32
F32Neg(f) == [f EXCEPT !.neg = ~f.neg]

\* f / 1000.0 in f32.  1000 = 125 * 2^3; the significand is scaled so that
\* the quotient by 125 has 24 bits (and the product stays below 2^31).
F32DivBy1000(f) ==
    IF f.m = 0 THEN f
    ELSE IF f.m >= 16384000
         THEN F32Pack(f.neg, RoundHalfEven(f.m * 64, 125), f.e - 9)
         ELSE F32Pack(f.neg, RoundHalfEven(f.m * 128, 125), f.e - 10)

\* f * 1000.0 in f32.  m * 125 has 30 or 31 bits; it is rounded to 24.
F32MulBy1000(f) ==
    IF f.m = 0 THEN f
    ELSE LET p == f.m * 125
         IN IF p >= 2 ^ 30
            THEN F32Pack(f.neg, RoundHalfEven(p, 128), f.e + 3 + 7)
            ELSE F32Pack(f.neg, RoundHalfEven(p, 64), f.e + 3 + 6)

\* |a| < |b|
F32MagLess(a, b) ==
    IF b.m = 0 THEN FALSE
    ELSE IF a.m = 0 THEN TRUE
    ELSE a.e < b.e \/ (a.e = b.e /\ a.m < b.m)

\* a < b on f32 (-0.0 and 0.0 compare equal)
F32Less(a, b) ==
    IF a.m = 0 /\ b.m = 0 THEN FALSE
    ELSE IF a.neg /\ ~b.neg THEN TRUE
    ELSE IF ~a.neg /\ b.neg THEN FALSE
    ELSE IF a.neg THEN F32MagLess(b, a) ELSE F32MagLess(a, b)

\* a == b on f32 (-0.0 == 0.0)
F32Eq(a, b) == (a.m = 0 /\ b.m = 0) \/ a = b

\* f32::clamp(self, min, max)
F32Clamp(f, lo, hi) ==
    IF F32Less(f, lo) THEN lo
    ELSE IF F32Less(hi, f) THEN hi
    ELSE f

\* faulty variant: the digits after the third decimal are cut off
FormatFixed3_Truncated(f) ==
    IF f.m = 0 THEN [neg |-> f.neg, millis |-> 0]
    ELSE LET p == f.m * 125
             s == -(f.e + 3)
         IN [neg |-> f.neg,
             millis |-> IF s <= 0 THEN p * (2 ^ (-s))
                        ELSE IF s >= 31 THEN 0
                        ELSE p \div (2 ^ s)]

\* format!("{:.3}", f): the sign and the thousandths of the exact value
\* rounded to three decimals; "-0.000" keeps its sign.
FormatFixed3(f) ==
    IF f.m = 0 THEN [neg |-> f.neg, millis |-> 0]
    ELSE LET p == f.m * 125
             s == -(f.e + 3)
         IN [neg |-> f.neg,
             millis |-> IF s <= 0 THEN p * (2 ^ (-s))
                        ELSE IF s >= 32 THEN 0
                        ELSE IF s = 31 THEN (IF p > 2 ^ 30 THEN 1 ELSE 0)
                        ELSE RoundHalfEven(p, 2 ^ s)]

\* the number of thousandths a formatted field reads back as
ParseMillis(txt) == IF txt.neg THEN -txt.millis ELSE txt.millis

\* the f32 a field with three decimals reads back as: the decimal value
\* millis / 1000, rounded to nearest, with the sign that was printed
ParseFixed3(txt) == [F32DivBy1000(F32FromInt(txt.millis)) EXCEPT !.neg = txt.neg]

(***************************************************************************)
(* Configuration (airplay/config.rs).                                      *)
(***************************************************************************)
\* generate_config(Some(name), AudioOutput::Headphone)
generate_config(name) ==
    [device_name |-> name, output_device |-> "hw:0,0",
     latency_offset_seconds |-> F32Zero(FALSE)]

\* render_config_file: the three fields the template interpolates
render_config_file(cfg) ==
    [name |-> cfg.device_name,
     output_device |-> cfg.output_device,
     latency_offset |-> FormatFixed3(cfg.latency_offset_seconds)]

(***************************************************************************)
(* State.                                                                  *)
(***************************************************************************)
VARIABLES
    config,            \* Arc<Mutex<ShairportConfig>> shared by sink, settings and playback
    conf_file,         \* contents of the configuration file: None until first written
    apply,             \* the calibration/result call in flight (or the last one)
    result_response,   \* last response of POST /api/calibration/result
    settings_response, \* last response of GET or POST /api/settings
    settings_io,       \* the calls the last settings request made on writer and controller
    config_lock,       \* the Mutex of config: 0 when free, 1 while an update holds its guard
    update_call,       \* ShairportSettingsManager::update followed statement by statement
    play_device,       \* the output_device SystemPlaybackSink::play read last
    lat_in,            \* input of a stand-alone apply_latency call
    lat_out,           \* its result
    chirp_in,          \* input of a generate_chirp_samples call
    chirp_out,         \* the samples it returned
    pending_playback,  \* Arc<Mutex<Option<PendingPlayback>>>
    tasks,             \* the wait-then-play tasks spawned by accepted Readys
    now,               \* now_millis(): the wall clock
    ticks,             \* how often the clock advanced
    overflow_checks,   \* build profile: does u64 overflow panic (dev) or wrap (release)
    worker_threads,    \* worker threads of the #[tokio::main] runtime: one per core
    events,            \* what happened, in order: requests, readys and play calls
    ready_calls,       \* the calibration/ready handlers followed statement by statement
    slot_lock,         \* the Mutex of pending_playback: 0 when free, else the handler holding it
    sig_pc,            \* generate_structured_signal: the block that runs next
    cursor,            \* its cursor, in samples
    markers,           \* its Vec<MarkerSpec>
    builder,           \* its SignalBuilder: the length of samples and the waves mixed in
    tone,              \* the index of the tone loop
    length_samples,    \* the length_samples of the CalibrationSignalSpec
    pcm                \* a sample of the signal on its way to the WAV file

applyVars == <<config, conf_file, apply, result_response, settings_response, settings_io>>
lockVars == <<config_lock, update_call, play_device>>
latVars == <<lat_in, lat_out>>
chirpVars == <<chirp_in, chirp_out>>
schedVars == <<pending_playback, tasks, now, ticks, overflow_checks, worker_threads, events,
               ready_calls, slot_lock>>
sigVars == <<sig_pc, cursor, markers, builder, tone, length_samples, pcm>>
vars == <<config, conf_file, apply, result_response, settings_response, settings_io,
          config_lock, update_call, play_device,
          lat_in, lat_out, chirp_in, chirp_out,
          pending_playback, tasks, now, ticks, overflow_checks, worker_threads, events,
          ready_calls, slot_lock,
          sig_pc, cursor, markers, builder, tone, length_samples, pcm>>

(***************************************************************************)
(* Inputs.                                                                 *)
(***************************************************************************)
\* latency_ms of a submission: every whole millisecond of the range, as f32
AllLatencies == (-MaxLatencyMs)..MaxLatencyMs \cup {-800, 800}
\* the latencies the interleaved model of the service draws from
SampleLatencies == {-800, -20, 0, 127, 251}
\* AIRSYNC_FORCE_LATENCY_MS: unset, or a value that parses as f32
ForcedLatencies == {None, Some(10), Some(300)}
\* hostname() of the service
HostName == "AirSync"
\* POST /api/settings payloads
SettingsPayloads ==
    [device_name : {None, Some("Living Room")},
     output_device : {None, Some("hw:1,0")},
     latency_offset_seconds : {None, Some(F32DivBy1000(F32FromInt(50)))}]
\* the payloads the settings endpoint is followed with on its own
AllSettingsPayloads ==
    [device_name : {None, Some("Living Room")},
     output_device : {None, Some("hw:1,0"), Some("hdmi")},
     latency_offset_seconds : {None, Some(F32DivBy1000(F32FromInt(50))),
                               Some(F32DivBy1000(F32FromInt(-55)))}]

OptMap(o) == IF o = None THEN None ELSE Some(F32FromInt(o[1]))

(***************************************************************************)
(* Latency applier (calibration/mod.rs).                                   *)
(***************************************************************************)
\* mod.rs:88-93   override_latency.unwrap_or(measured_latency_ms)
EffectiveLatency(measured, override) == UnwrapOr(override, measured)

\* faulty variant: the latency is not clamped
ClampLatency_Unclamped(effective) == effective

\* mod.rs:98   effective_latency_ms.clamp(-250.0, 250.0)
ClampLatency(effective) ==
    F32Clamp(effective, F32FromInt(-ClampLimitMs), F32FromInt(ClampLimitMs))

\* faulty variant: the sign convention is lost
OffsetSeconds_NotNegated(clamped) == F32DivBy1000(clamped)

\* mod.rs:99   -clamped_latency_ms / 1000.0
OffsetSeconds(clamped) == F32DivBy1000(F32Neg(clamped))

\* faulty variant: the offset is not stored before the render
StoreOffset_Dropped(cfg, offset) == cfg

\* faulty variant: the offset is stored into a freshly generated configuration
StoreOffset_Regenerated(cfg, offset) ==
    [generate_config(HostName) EXCEPT !.latency_offset_seconds = offset]

\* mod.rs:100   config.latency_offset_seconds = offset_seconds (on the by-value copy)
StoreOffset(cfg, offset) == [cfg EXCEPT !.latency_offset_seconds = offset]

\* mod.rs:106-110
CalibrationOutcome(effective, clamped, offset) ==
    [measured_latency_ms |-> effective,
     applied_offset_ms |-> F32MulBy1000(offset),
     was_clamped |-> ~F32Eq(clamped, effective)]

\* faulty variant: the result of the write is ignored
AfterWrite_Ignored(ok) == "restart"

\* mod.rs:103   self.writer.write(&rendered)?
AfterWrite(ok) == IF ok THEN "restart" ELSE "failed"

\* mod.rs:104   self.controller.restart()?
AfterRestart(ok) == IF ok THEN "returned" ELSE "failed"

\* http.rs:127-135   ShairportCalibrationSink::apply builds the response
CalibrationApplyResponse(measured, outcome) ==
    [measured_latency_ms |-> measured,
     applied_offset_ms |-> outcome.applied_offset_ms,
     was_clamped |-> outcome.was_clamped]

\* http.rs:215-216   map_err(|_| INTERNAL_SERVER_ERROR)
ResultStatus(pc) == IF pc = "returned" THEN 200 ELSE 500

\* the locals of apply_latency up to the render (mod.rs:82-102)
ApplyLocals(cfg, measured, override) ==
    LET effective == EffectiveLatency(measured, override)
        clamped == ClampLatency(effective)
        offset == OffsetSeconds(clamped)
        stored == StoreOffset(cfg, offset)
    IN [measured |-> measured, override |-> override, effective |-> effective,
        clamped |-> clamped, offset |-> offset, cfg |-> stored,
        rendered |-> render_config_file(stored)]

\* apply_latency run to completion against a writer and a controller whose
\* results are write_ok and restart_ok (mod.rs:82-111)
apply_latency(cfg, measured, override, write_ok, restart_ok) ==
    LET l == ApplyLocals(cfg, measured, override)
        pc1 == AfterWrite(write_ok)
        pc2 == IF pc1 = "restart" THEN AfterRestart(restart_ok) ELSE pc1
    IN [pc |-> pc2,
        io |-> IF pc1 = "restart" THEN <<"write", "restart">> ELSE <<"write">>,
        written |-> IF write_ok THEN Some(l.rendered) ELSE None,
        stored |-> l.cfg.latency_offset_seconds,
        outcome |-> IF pc2 = "returned"
                    THEN Some(CalibrationOutcome(l.effective, l.clamped, l.offset))
                    ELSE None]

\* POST /api/calibration/result arrives: the sink snapshots the shared
\* configuration under its lock (http.rs:128) and apply_latency computes its
\* locals; the write is the next step.  One call is followed at a time; settings
\* reads and updates interleave with its steps.
calibration_result(L, ov) ==
    /\ apply.pc \in {"idle", "returned", "failed"}
    /\ apply' = [pc |-> "write", io |-> <<>>, outcome |-> None,
                 latency_ms |-> Some(L), forced |-> ov,
                 write_ok |-> None, restart_ok |-> None, written |-> None,
                 l |-> ApplyLocals(config, F32FromInt(L), OptMap(ov))]
    /\ UNCHANGED <<config, conf_file, result_response, settings_response, settings_io>>
    /\ UNCHANGED <<lockVars, latVars, chirpVars, schedVars, sigVars>>

\* self.writer.write(&rendered)? (mod.rs:103); an error ends the call with 500
writer_write(ok) ==
    /\ apply.pc = "write"
    /\ conf_file' = IF ok THEN Some(apply.l.rendered) ELSE conf_file
    /\ apply' = [apply EXCEPT !.pc = AfterWrite(ok), !.io = Append(@, "write"),
                              !.write_ok = Some(ok), !.written = Some(apply.l.rendered)]
    /\ result_response' = IF AfterWrite(ok) = "failed"
                          THEN [status |-> ResultStatus("failed"), body |-> None]
                          ELSE result_response
    /\ UNCHANGED <<config, settings_response, settings_io>>
    /\ UNCHANGED <<lockVars, latVars, chirpVars, schedVars, sigVars>>

\* self.controller.restart()? (mod.rs:104), then the outcome and the response
controller_restart(ok) ==
    /\ apply.pc = "restart"
    /\ LET pc2 == AfterRestart(ok)
           out == CalibrationOutcome(apply.l.effective, apply.l.clamped, apply.l.offset)
       IN /\ apply' = [apply EXCEPT !.pc = pc2, !.io = Append(@, "restart"),
                                    !.restart_ok = Some(ok),
                                    !.outcome = IF pc2 = "returned" THEN Some(out) ELSE None]
          /\ result_response' =
                [status |-> ResultStatus(pc2),
                 body |-> IF pc2 = "returned"
                          THEN Some(CalibrationApplyResponse(apply.l.measured, out))
                          ELSE None]
    /\ UNCHANGED <<config, conf_file, settings_response, settings_io>>
    /\ UNCHANGED <<lockVars, latVars, chirpVars, schedVars, sigVars>>

(***************************************************************************)
(* Settings (http.rs).                                                     *)
(***************************************************************************)
\* http.rs:250-254 and 262-266
SettingsResponse(cfg) ==
    [device_name |-> cfg.device_name, output_device |-> cfg.output_device,
     latency_offset_seconds |-> cfg.latency_offset_seconds]

\* faulty variant: a field absent from the payload falls back to its default
MergeSettings_ResetAbsent(cfg, update) ==
    [device_name |-> UnwrapOr(update.device_name, HostName),
     output_device |-> UnwrapOr(update.output_device, "hw:0,0"),
     latency_offset_seconds |-> UnwrapOr(update.latency_offset_seconds, F32Zero(FALSE))]

\* http.rs:358-366   the fields present in the payload overwrite the configuration
MergeSettings(cfg, update) ==
    [device_name |-> UnwrapOr(update.device_name, cfg.device_name),
     output_device |-> UnwrapOr(update.output_device, cfg.output_device),
     latency_offset_seconds |->
        UnwrapOr(update.latency_offset_seconds, cfg.latency_offset_seconds)]

\* http.rs:368-369   writer.write(&rendered)?; controller.restart()?
SettingsIo(write_ok) == IF write_ok THEN <<"write", "restart">> ELSE <<"write">>

\* faulty variant: the configuration is read without its lock
ConfigLockFree_Always(holder) == TRUE

\* Mutex::lock() on config returns when no other guard is alive
ConfigLockFree(holder) == holder = 0

\* GET /api/settings: ShairportSettingsManager::current (http.rs:248-255, 352-354)
get_settings ==
    /\ ConfigLockFree(config_lock)
    /\ settings_response' = [status |-> 200, body |-> Some(SettingsResponse(config))]
    /\ settings_io' = <<>>
    /\ UNCHANGED <<config, conf_file, apply, result_response>>
    /\ UNCHANGED <<lockVars, latVars, chirpVars, schedVars, sigVars>>

\* POST /api/settings: ShairportSettingsManager::update holds the configuration
\* lock from the merge to the return (http.rs:257-267, 356-371)
update_settings(update, write_ok, restart_ok) ==
    /\ ConfigLockFree(config_lock)
    /\ config' = MergeSettings(config, update)
    /\ conf_file' = IF write_ok THEN Some(render_config_file(config')) ELSE conf_file
    /\ settings_response' =
          IF write_ok /\ restart_ok
          THEN [status |-> 200, body |-> Some(SettingsResponse(config'))]
          ELSE [status |-> 500, body |-> None]
    /\ settings_io' = SettingsIo(write_ok)
    /\ UNCHANGED <<apply, result_response>>
    /\ UNCHANGED <<lockVars, latVars, chirpVars, schedVars, sigVars>>


\* no settings update is inside ShairportSettingsManager::update
UpdateIdle == [pc |-> "idle", update |-> None, before |-> None]

\* The same update, statement by statement, so that readers of the
\* configuration can run while it is under way.
\* http.rs:357   let mut cfg = self.config.lock().unwrap()
update_lock(update) ==
    /\ update_call.pc = "idle"
    /\ ConfigLockFree(config_lock)
    /\ config_lock' = 1
    /\ update_call' = [pc |-> "device_name", update |-> Some(update), before |-> Some(config)]
    /\ UNCHANGED <<config, conf_file, apply, result_response, settings_response,
                   settings_io, play_device>>
    /\ UNCHANGED <<latVars, chirpVars, schedVars, sigVars>>

\* http.rs:358-360   if let Some(name) = update.device_name { cfg.device_name = name }
update_device_name ==
    /\ update_call.pc = "device_name"
    /\ config' = [config EXCEPT !.device_name =
                     UnwrapOr(update_call.update[1].device_name, config.device_name)]
    /\ update_call' = [update_call EXCEPT !.pc = "output_device"]
    /\ UNCHANGED <<conf_file, apply, result_response, settings_response, settings_io,
                   config_lock, play_device>>
    /\ UNCHANGED <<latVars, chirpVars, schedVars, sigVars>>

\* http.rs:361-363
update_output_device ==
    /\ update_call.pc = "output_device"
    /\ config' = [config EXCEPT !.output_device =
                     UnwrapOr(update_call.update[1].output_device, config.output_device)]
    /\ update_call' = [update_call EXCEPT !.pc = "latency_offset_seconds"]
    /\ UNCHANGED <<conf_file, apply, result_response, settings_response, settings_io,
                   config_lock, play_device>>
    /\ UNCHANGED <<latVars, chirpVars, schedVars, sigVars>>

\* http.rs:364-366
update_latency_offset ==
    /\ update_call.pc = "latency_offset_seconds"
    /\ config' = [config EXCEPT !.latency_offset_seconds =
                     UnwrapOr(update_call.update[1].latency_offset_seconds,
                              config.latency_offset_seconds)]
    /\ update_call' = [update_call EXCEPT !.pc = "write"]
    /\ UNCHANGED <<conf_file, apply, result_response, settings_response, settings_io,
                   config_lock, play_device>>
    /\ UNCHANGED <<latVars, chirpVars, schedVars, sigVars>>

\* http.rs:367-368   render and writer.write(&rendered)?: an error returns,
\* the guard is dropped and the endpoint answers 500 (http.rs:261)
update_write(ok) ==
    /\ update_call.pc = "write"
    /\ conf_file' = IF ok THEN Some(render_config_file(config)) ELSE conf_file
    /\ settings_io' = <<"write">>
    /\ update_call' = IF ok THEN [update_call EXCEPT !.pc = "restart"] ELSE UpdateIdle
    /\ config_lock' = IF ok THEN config_lock ELSE 0
    /\ settings_response' = IF ok THEN settings_response ELSE [status |-> 500, body |-> None]
    /\ UNCHANGED <<config, apply, result_response, play_device>>
    /\ UNCHANGED <<latVars, chirpVars, schedVars, sigVars>>

\* http.rs:369-370   controller.restart()?; Ok(cfg.clone()); the guard is dropped
update_restart(ok) ==
    /\ update_call.pc = "restart"
    /\ settings_io' = SettingsIo(TRUE)
    /\ settings_response' =
          IF ok THEN [status |-> 200, body |-> Some(SettingsResponse(config))]
          ELSE [status |-> 500, body |-> None]
    /\ update_call' = UpdateIdle
    /\ config_lock' = 0
    /\ UNCHANGED <<config, conf_file, apply, result_response, play_device>>
    /\ UNCHANGED <<latVars, chirpVars, schedVars, sigVars>>

\* SystemPlaybackSink::play picks the output device (http.rs:322):
\* self.config.lock().unwrap().output_device.clone()
play_reads_device ==
    /\ ConfigLockFree(config_lock)
    /\ play_device' = Some(config.output_device)
    /\ UNCHANGED <<config, conf_file, apply, result_response, settings_response,
                   settings_io, config_lock, update_call>>
    /\ UNCHANGED <<latVars, chirpVars, schedVars, sigVars>>

(***************************************************************************)
(* Calibration scheduler (http.rs).                                        *)
(***************************************************************************)
U64Modulus == 2 ^ U64Bits
U64Max == U64Modulus - 1

\* the chirp of the HTTP tests (http.rs:679-685) and ChirpConfig::default()
\* (shared-protocol/src/calibration.rs:14-25)
ChirpTest ==
    [start_freq |-> 2000, end_freq |-> 8000, duration |-> 50,
     repetitions |-> 5, interval_ms |-> 500, amplitude |-> None]
ChirpDefault ==
    [start_freq |-> 1000, end_freq |-> 10000, duration |-> 100,
     repetitions |-> 6, interval_ms |-> 400, amplitude |-> None]
Chirps == {ChirpTest, ChirpDefault}
\* delay_ms of a Request: absent, or the largest u64
RequestDelays == {None, Some(U64Max)}
\* target_start_ms of a Ready: absent, already past, or ahead of the clock
ReadyTargets == {None, Some(StartTime), Some(StartTime + DefaultDelayMs)}
\* target_start_ms of the Readys that race: absent, or already past
RaceTargets == {None, Some(StartTime)}
\* the clock is read again DefaultDelayMs later
TickSteps == {DefaultDelayMs}

\* http.rs:160
RequestDelay(delay_ms) == UnwrapOr(delay_ms, DefaultDelayMs)

\* faulty variant: an armed slot is not replaced
StorePending_KeepFirst(slot, p) == IF slot = None THEN Some(p) ELSE slot

\* http.rs:162   *slot = Some(PendingPlayback {..})
StorePending(slot, p) == Some(p)

\* faulty variant: the Ready reads the slot and leaves it armed
TakePending_Peek(slot) == [taken |-> slot, left |-> slot]

\* http.rs:179   lock().unwrap().take(): what the caller gets, what the slot keeps
TakePending(slot) == [taken |-> slot, left |-> None]

\* faulty variant: every Ready is answered 200
ReadyStatus_AlwaysOk(taken) == 200

\* http.rs:180-183, 203
ReadyStatus(taken) == IF taken = None THEN 400 ELSE 200

\* faulty variant: the task plays the default chirp
TaskChirp_Default(p) == ChirpDefault

\* http.rs:198   the spawned closure owns `pending` and plays pending.chirp
TaskChirp(p) == p.chirp

\* the state the spawned closure captures (the chirp and delay of the taken
\* PendingPlayback, the Ready's target) and its locals; ready_ev is the
\* position of the spawning Ready in events
NewTask(p, tgt, ev) ==
    [chirp |-> TaskChirp(p), delay_ms |-> p.delay_ms,
     target_start_ms |-> tgt, ready_ev |-> ev,
     pc |-> "spawned", now |-> 0, target |-> 0, wait_ms |-> 0]

\* faulty variant: a Ready on an empty slot still spawns a playback
SpawnOnReady_Always(ts, taken, tgt, ev) ==
    Append(ts, NewTask(IF taken = None
                       THEN [chirp |-> ChirpDefault, delay_ms |-> DefaultDelayMs,
                             requested_at |-> 0]
                       ELSE taken[1], tgt, ev))

\* http.rs:180-186   let Some(pending) = pending else { return }; tokio::spawn(..)
SpawnOnReady(ts, taken, tgt, ev) ==
    IF taken = None THEN ts ELSE Append(ts, NewTask(taken[1], tgt, ev))

Event(type, chirp, status, task) ==
    [type |-> type, chirp |-> chirp, status |-> status, task |-> task]
\* the chirp field of an event that carries none
NoChirp ==
    [start_freq |-> 0, end_freq |-> 0, duration |-> 0,
     repetitions |-> 0, interval_ms |-> 0, amplitude |-> None]

CountEvents(type) == Cardinality({i \in DOMAIN events : events[i].type = type})

\* the calls so far: those answered and the Readys still in their handler
CallCount ==
    CountEvents("request") + CountEvents("ready")
    + Cardinality({h \in DOMAIN ready_calls : ready_calls[h].pc # "done"})

\* faulty variant: the lock is handed out while it is held
LockFree_Always(holder) == TRUE

\* Mutex::lock() on pending_playback returns when no other guard is alive
LockFree(holder) == holder = 0

\* the runtime of #[tokio::main] (airsync-receiver-service.rs:14) has one
\* worker thread per core
WorkerCounts == {1, 2}

\* the worker threads that are taken: a Ready handler runs on one from its
\* first statement to its return (it has no await), and a task inside
\* playback.play keeps one until aplay has ended (Command::status blocks,
\* http.rs:332)
BusyWorkers ==
    Cardinality({h \in DOMAIN ready_calls : ready_calls[h].pc # "done"})
    + Cardinality({t \in DOMAIN tasks : tasks[t].pc = "playing"})

\* a handler or a task is polled when a worker thread is free
WorkerFree == BusyWorkers < worker_threads

\* POST /api/calibration/request (http.rs:159-172)
calibration_request(chirp_config, delay_ms) ==
    /\ CallCount < MaxCalls
    /\ WorkerFree
    /\ LockFree(slot_lock)
    /\ pending_playback' =
          StorePending(pending_playback,
                       [chirp |-> chirp_config, delay_ms |-> RequestDelay(delay_ms),
                        requested_at |-> now])
    /\ events' = Append(events, Event("request", chirp_config, 200, 0))
    /\ UNCHANGED <<tasks, now, ticks, overflow_checks, worker_threads, ready_calls, slot_lock>>
    /\ UNCHANGED <<applyVars, lockVars, latVars, chirpVars, sigVars>>

\* POST /api/calibration/ready (http.rs:174-204): take the slot, answer 400
\* when it was empty, else spawn the wait-then-play task and answer 200.
\* The handler touches shared state once, in lock().take(), so it is one step;
\* the spawned task runs in steps of its own (task_start, task_wake, task_play).
calibration_ready(target_start_ms) ==
    /\ CallCount < MaxCalls
    /\ WorkerFree
    /\ LockFree(slot_lock)
    /\ LET took == TakePending(pending_playback)
       IN /\ pending_playback' = took.left
          /\ tasks' = SpawnOnReady(tasks, took.taken, target_start_ms, Len(events) + 1)
          /\ events' = Append(events, Event("ready", NoChirp, ReadyStatus(took.taken),
                                            IF Len(tasks') > Len(tasks) THEN Len(tasks') ELSE 0))
    /\ UNCHANGED <<now, ticks, overflow_checks, worker_threads, ready_calls, slot_lock>>
    /\ UNCHANGED <<applyVars, lockVars, latVars, chirpVars, sigVars>>

\* The same handler, followed statement by statement, so that several Readys
\* can be inside it at once (the runtime of #[tokio::main] has several worker
\* threads).  armed notes whether the slot was armed when the call came in,
\* task the task the call spawned.
ready_arrive(target_start_ms) ==
    /\ CallCount < MaxCalls
    /\ WorkerFree
    /\ ready_calls' = Append(ready_calls,
                             [pc |-> "lock", target_start_ms |-> target_start_ms,
                              taken |-> None, armed |-> pending_playback # None,
                              task |-> 0, status |-> 0])
    /\ UNCHANGED <<pending_playback, tasks, now, ticks, overflow_checks, worker_threads, events, slot_lock>>
    /\ UNCHANGED <<applyVars, lockVars, latVars, chirpVars, sigVars>>

\* http.rs:179   lock().unwrap(), and take() reads what the slot holds
ready_lock(h) ==
    /\ ready_calls[h].pc = "lock"
    /\ LockFree(slot_lock)
    /\ slot_lock' = h
    /\ ready_calls' = [ready_calls EXCEPT ![h].pc = "take",
                                          ![h].taken = TakePending(pending_playback).taken]
    /\ UNCHANGED <<pending_playback, tasks, now, ticks, overflow_checks, worker_threads, events>>
    /\ UNCHANGED <<applyVars, lockVars, latVars, chirpVars, sigVars>>

\* http.rs:179   the MutexGuard is a temporary: dropped at the end of the statement
ReleaseGuard(holder, h) == IF holder = h THEN 0 ELSE holder

\* http.rs:179   take() leaves None in the slot; the guard is dropped at the
\* end of the statement
ready_take(h) ==
    /\ ready_calls[h].pc = "take"
    /\ pending_playback' = TakePending(pending_playback).left
    /\ slot_lock' = ReleaseGuard(slot_lock, h)
    /\ ready_calls' = [ready_calls EXCEPT ![h].pc = "spawn"]
    /\ UNCHANGED <<tasks, now, ticks, overflow_checks, worker_threads, events>>
    /\ UNCHANGED <<applyVars, lockVars, latVars, chirpVars, sigVars>>

\* http.rs:180-186   nothing taken: on to the early return; else tokio::spawn
\* hands the task to the runtime, which may poll it on another worker thread
\* before this handler has returned
ready_spawn(h) ==
    /\ ready_calls[h].pc = "spawn"
    /\ tasks' = SpawnOnReady(tasks, ready_calls[h].taken, ready_calls[h].target_start_ms, 0)
    /\ ready_calls' = [ready_calls EXCEPT
                         ![h].pc = "respond",
                         ![h].task = IF Len(tasks') > Len(tasks) THEN Len(tasks') ELSE 0]
    /\ UNCHANGED <<pending_playback, now, ticks, overflow_checks, worker_threads, events, slot_lock>>
    /\ UNCHANGED <<applyVars, lockVars, latVars, chirpVars, sigVars>>

\* http.rs:182, 203   the handler returns 400 or 200
ready_respond(h) ==
    /\ ready_calls[h].pc = "respond"
    /\ events' = Append(events, Event("ready", NoChirp, ReadyStatus(ready_calls[h].taken),
                                      ready_calls[h].task))
    /\ tasks' = [t \in DOMAIN tasks |->
                   IF t = ready_calls[h].task
                   THEN [tasks[t] EXCEPT !.ready_ev = Len(events')] ELSE tasks[t]]
    /\ ready_calls' = [ready_calls EXCEPT ![h].pc = "done",
                                          ![h].status = ReadyStatus(ready_calls[h].taken)]
    /\ UNCHANGED <<pending_playback, now, ticks, overflow_checks, worker_threads, slot_lock>>
    /\ UNCHANGED <<applyVars, lockVars, latVars, chirpVars, sigVars>>

\* http.rs:188   now + pending.delay_ms overflows u64
TargetOverflows(t_now, delay_ms) == t_now + delay_ms > U64Max

\* http.rs:188   req.target_start_ms.unwrap_or_else(|| now + pending.delay_ms),
\* the sum wrapped to the width of u64
TargetStart(target_start_ms, t_now, delay_ms) ==
    UnwrapOr(target_start_ms, (t_now + delay_ms) % U64Modulus)

\* http.rs:189   target.saturating_sub(now)
WaitMs(target, t_now) == IF target > t_now THEN target - t_now ELSE 0

\* the task starts (http.rs:187-192): read the clock, compute the target and
\* the wait; with overflow checks the overflowing sum panics and ends the task
task_start(t) ==
    /\ tasks[t].pc = "spawned"
    /\ WorkerFree
    /\ LET tk == tasks[t]
           panics == /\ tk.target_start_ms = None
                     /\ TargetOverflows(now, tk.delay_ms)
                     /\ overflow_checks
           target == TargetStart(tk.target_start_ms, now, tk.delay_ms)
           wait == WaitMs(target, now)
       IN tasks' = [tasks EXCEPT ![t] =
             IF panics THEN [tk EXCEPT !.pc = "panicked"]
             ELSE [tk EXCEPT !.now = now, !.target = target, !.wait_ms = wait,
                             !.pc = IF wait > 0 THEN "sleeping" ELSE "play"]]
    /\ UNCHANGED <<pending_playback, now, ticks, overflow_checks, worker_threads, events, ready_calls, slot_lock>>
    /\ UNCHANGED <<applyVars, lockVars, latVars, chirpVars, sigVars>>

\* tokio::time::sleep(wait_ms) is over (http.rs:191): not before its deadline
task_wake(t) ==
    /\ tasks[t].pc = "sleeping"
    /\ now >= tasks[t].now + tasks[t].wait_ms
    /\ tasks' = [tasks EXCEPT ![t].pc = "play"]
    /\ UNCHANGED <<pending_playback, now, ticks, overflow_checks, worker_threads, events, ready_calls, slot_lock>>
    /\ UNCHANGED <<applyVars, lockVars, latVars, chirpVars, sigVars>>

\* faulty variant: a failed play is tried again
AfterPlay_Retry(ok) == IF ok THEN "done" ELSE "play"

\* http.rs:193-200   Ok or Err, the result is logged and the closure ends
AfterPlay(ok) == "done"

\* faulty variant: the task plays what the slot holds when its wait is over
PlayedChirp_FromSlot(tk, slot) == IF slot = None THEN tk.chirp ELSE slot[1].chirp

\* http.rs:193   playback.play(&pending.chirp): the chirp the closure owns
PlayedChirp(tk, slot) == tk.chirp

\* playback.play(&pending.chirp) (http.rs:193-200); an error is only logged,
\* and the task and its locals end
task_play(t, ok) ==
    /\ tasks[t].pc = "play"
    /\ WorkerFree
    /\ tasks' = [tasks EXCEPT ![t].pc = AfterPlay(ok), ![t].now = 0, ![t].target = 0,
                              ![t].wait_ms = 0]
    /\ events' = Append(events, Event("play", PlayedChirp(tasks[t], pending_playback),
                                      IF ok THEN 0 ELSE 1, t))
    /\ UNCHANGED <<pending_playback, now, ticks, overflow_checks, worker_threads, ready_calls, slot_lock>>
    /\ UNCHANGED <<applyVars, lockVars, latVars, chirpVars, sigVars>>

\* the same call in two steps: aplay is started on the task's worker thread
\* (http.rs:332, Command::status) ...
task_play_begin(t) ==
    /\ tasks[t].pc = "play"
    /\ WorkerFree
    /\ tasks' = [tasks EXCEPT ![t].pc = "playing"]
    /\ UNCHANGED <<pending_playback, now, ticks, overflow_checks, worker_threads, events, ready_calls, slot_lock>>
    /\ UNCHANGED <<applyVars, lockVars, latVars, chirpVars, sigVars>>

\* ... and has ended: play returns, the result is logged, the worker is free
task_play_end(t, ok) ==
    /\ tasks[t].pc = "playing"
    /\ tasks' = [tasks EXCEPT ![t].pc = AfterPlay(ok), ![t].now = 0, ![t].target = 0,
                              ![t].wait_ms = 0]
    /\ events' = Append(events, Event("play", PlayedChirp(tasks[t], pending_playback),
                                      IF ok THEN 0 ELSE 1, t))
    /\ UNCHANGED <<pending_playback, now, ticks, overflow_checks, worker_threads, ready_calls, slot_lock>>
    /\ UNCHANGED <<applyVars, lockVars, latVars, chirpVars, sigVars>>

\* the wall clock advances
Tick(d) ==
    /\ ticks < MaxTicks
    /\ now' = now + d
    /\ ticks' = ticks + 1
    /\ UNCHANGED <<pending_playback, tasks, overflow_checks, worker_threads, events, ready_calls, slot_lock>>
    /\ UNCHANGED <<applyVars, lockVars, latVars, chirpVars, sigVars>>

(***************************************************************************)
(* Structured calibration signal (calibration/signal.rs).  A sample is     *)
(* kept as the bound of its magnitude, in thousandths of full scale: every *)
(* wave mixed in is wave * amp * env with |wave| <= 1 and 0 <= env <= 1,   *)
(* so a sample is at most the sum of the amplitudes of the waves over it.  *)
(***************************************************************************)
SAMPLE_RATE == 48000
TARGET_LENGTH_MS == 4700
\* i16::MAX
I16Max == 32767
\* one unit of amplitude, in thousandths
FullScale == 1000
\* s.clamp(-0.97, 0.97)
ClipLevel == 970

\* signal.rs:16-18
ms_to_samples(ms) == (ms * SAMPLE_RATE) \div 1000

preroll_ms == 520
preroll_len == ms_to_samples(preroll_ms)
click_a_len == ms_to_samples(12)
sweep_ms == 150
sweep_len == ms_to_samples(sweep_ms)
chirp_duration_ms == 120
chirp_len == ms_to_samples(chirp_duration_ms)
gap_ms == 260
freqs == <<800, 1000, 3000, 6000, 8000, 10000, 4000>>
click_b_len == ms_to_samples(14)
warmdown_ms == 220
warmdown_len == ms_to_samples(warmdown_ms)

\* the amp arguments of the mix calls: 0.09, 0.72, 0.65, 0.85, 0.45, 0.035
PrerollAmp == 90
ClickAAmp == 720
SweepAmp == 650
ToneAmp == 850
ClickBAmp == 450
WarmdownAmp == 35

\* format!("chirp_{}", idx + 1)
ToneIds == <<"chirp_1", "chirp_2", "chirp_3", "chirp_4", "chirp_5", "chirp_6", "chirp_7">>

\* MarkerSpec with MarkerKind::Click
ClickMarker(id, start, duration) ==
    [id |-> id, kind |-> "click", start_freq |-> 0, end_freq |-> 0, duration_ms |-> 0,
     start_sample |-> start, duration_samples |-> duration]

\* MarkerSpec with MarkerKind::Chirp
ChirpMarker(id, f0, f1, ms, start, duration) ==
    [id |-> id, kind |-> "chirp", start_freq |-> f0, end_freq |-> f1, duration_ms |-> ms,
     start_sample |-> start, duration_samples |-> duration]

\* faulty variant: the sample vector is never grown
ensure_len_Never(len, need) == len

\* signal.rs:52-56   the length of samples after ensure_len(need)
ensure_len(len, need) == IF len < need THEN need ELSE len

\* signal.rs:58-73   mix_wave (and mix_sine, mix_constant, mix_sweep, which
\* differ in the wave only): nothing for an empty wave, else the vector is
\* grown to the end of the wave and the wave is added over [start, start + duration)
mix_wave(b, start, duration, amp) ==
    IF duration = 0 THEN b
    ELSE [len |-> ensure_len(b.len, start + duration),
          waves |-> Append(b.waves, [start |-> start, duration |-> duration, amp |-> amp])]

RECURSIVE SumAmps(_, _, _)
\* the amplitudes of the first i waves that cover sample n, added up
SumAmps(ws, n, i) ==
    IF i = 0 THEN 0
    ELSE SumAmps(ws, n, i - 1)
         + (IF ws[i].start <= n /\ n < ws[i].start + ws[i].duration THEN ws[i].amp ELSE 0)

\* signal.rs:71   samples[n] after every += : at most the amplitudes over n
SamplePeak(b, n) == SumAmps(b.waves, n, Len(b.waves))

\* signal.rs:212   s.clamp(-0.97, 0.97), on the magnitude
Clip(level) == IF level > ClipLevel THEN ClipLevel ELSE level

\* signal.rs:212   (.. * i16::MAX as f32) as i16: the cast cuts the fraction off
ToPcm(level) == (Clip(level) * I16Max) \div FullScale

\* faulty variant: the cursor stays on the click
AfterClickA_Stuck(c) == c

\* signal.rs:132-133   cursor += click_a_len; cursor += ms_to_samples(20)
AfterClickA(c) == c + click_a_len + ms_to_samples(20)

\* signal.rs:150-151
AfterSweep(c) == c + sweep_len + ms_to_samples(200)

\* faulty variant: the cursor stays on the tone
NextToneStart_Stuck(c) == c

\* signal.rs:171-172   cursor += chirp_len; cursor += ms_to_samples(gap_ms)
NextToneStart(c) == c + chirp_len + ms_to_samples(gap_ms)

\* signal.rs:105-121   the pre-roll hum, from sample 0; the cursor is set to 320 ms
mix_preroll ==
    /\ sig_pc = "preroll"
    /\ builder' = mix_wave(builder, 0, preroll_len, PrerollAmp)
    /\ markers' = Append(markers, ChirpMarker("warmup", 120, 120, preroll_ms, 0, preroll_len))
    /\ cursor' = ms_to_samples(320)
    /\ sig_pc' = "click_a"
    /\ UNCHANGED <<tone, length_samples, pcm>>
    /\ UNCHANGED <<applyVars, lockVars, latVars, chirpVars, schedVars>>

\* signal.rs:123-133   the leading click
mix_click_a ==
    /\ sig_pc = "click_a"
    /\ builder' = mix_wave(builder, cursor, click_a_len, ClickAAmp)
    /\ markers' = Append(markers, ClickMarker("click_a", cursor, click_a_len))
    /\ cursor' = AfterClickA(cursor)
    /\ sig_pc' = "sweep"
    /\ UNCHANGED <<tone, length_samples, pcm>>
    /\ UNCHANGED <<applyVars, lockVars, latVars, chirpVars, schedVars>>

\* signal.rs:135-151   the sweep anchor
mix_sweep_anchor ==
    /\ sig_pc = "sweep"
    /\ builder' = mix_wave(builder, cursor, sweep_len, SweepAmp)
    /\ markers' = Append(markers,
                         ChirpMarker("sweep_anchor", 400, 9000, sweep_ms, cursor, sweep_len))
    /\ cursor' = AfterSweep(cursor)
    /\ sig_pc' = "tones"
    /\ UNCHANGED <<tone, length_samples, pcm>>
    /\ UNCHANGED <<applyVars, lockVars, latVars, chirpVars, schedVars>>

\* signal.rs:158-173   one turn of the loop over freqs
mix_tone ==
    /\ sig_pc = "tones"
    /\ tone < Len(freqs)
    /\ builder' = mix_wave(builder, cursor, chirp_len, ToneAmp)
    /\ markers' = Append(markers,
                         ChirpMarker(ToneIds[tone + 1], freqs[tone + 1], freqs[tone + 1],
                                     chirp_duration_ms, cursor, chirp_len))
    /\ cursor' = NextToneStart(cursor)
    /\ tone' = tone + 1
    /\ sig_pc' = IF tone + 1 = Len(freqs) THEN "click_b" ELSE "tones"
    /\ UNCHANGED <<length_samples, pcm>>
    /\ UNCHANGED <<applyVars, lockVars, latVars, chirpVars, schedVars>>

\* signal.rs:175-187   the trailing click, 200 ms after the last gap
mix_click_b ==
    /\ sig_pc = "click_b"
    /\ LET click_b_start == cursor + ms_to_samples(200)
       IN /\ builder' = mix_wave(builder, click_b_start, click_b_len, ClickBAmp)
          /\ markers' = Append(markers, ClickMarker("click_b", click_b_start, click_b_len))
          /\ cursor' = click_b_start + click_b_len + ms_to_samples(60)
    /\ sig_pc' = "warmdown"
    /\ UNCHANGED <<tone, length_samples, pcm>>
    /\ UNCHANGED <<applyVars, lockVars, latVars, chirpVars, schedVars>>

\* signal.rs:189-203   the warm-down hum
mix_warmdown ==
    /\ sig_pc = "warmdown"
    /\ builder' = mix_wave(builder, cursor, warmdown_len, WarmdownAmp)
    /\ markers' = Append(markers,
                         ChirpMarker("warmdown", 200, 200, warmdown_ms, cursor, warmdown_len))
    /\ cursor' = cursor + warmdown_len
    /\ sig_pc' = "pad"
    /\ UNCHANGED <<tone, length_samples, pcm>>
    /\ UNCHANGED <<applyVars, lockVars, latVars, chirpVars, schedVars>>

\* faulty variant: the signal ends with its last event
target_len_CursorOnly(c) == c

\* signal.rs:205   ms_to_samples(TARGET_LENGTH_MS).max(cursor)
target_len(c) ==
    IF ms_to_samples(TARGET_LENGTH_MS) > c THEN ms_to_samples(TARGET_LENGTH_MS) ELSE c

\* signal.rs:205-207   the vector is padded to the target length
pad_to_target ==
    /\ sig_pc = "pad"
    /\ builder' = [builder EXCEPT !.len = ensure_len(@, target_len(cursor))]
    /\ length_samples' = builder'.len
    /\ sig_pc' = "pcm"
    /\ UNCHANGED <<cursor, markers, tone, pcm>>
    /\ UNCHANGED <<applyVars, lockVars, latVars, chirpVars, schedVars>>

\* signal.rs:209-211   builder.samples.iter(): the indices the map runs over
PcmIndices == IF sig_pc = "pcm" THEN 0..(builder.len - 1) ELSE {}

\* signal.rs:209-213   the map over samples, at sample n: clip, scale, cast
quantize(n) ==
    /\ sig_pc = "pcm"
    /\ n < builder.len
    /\ pcm' = Some([n |-> n, peak |-> SamplePeak(builder, n),
                    out |-> ToPcm(SamplePeak(builder, n))])
    /\ sig_pc' = "done"
    /\ UNCHANGED <<cursor, markers, builder, tone, length_samples>>
    /\ UNCHANGED <<applyVars, lockVars, latVars, chirpVars, schedVars>>

(***************************************************************************)
(* Stand-alone apply_latency, as the unit tests of calibration/mod.rs call *)
(* it: a generated configuration, a latency, a writer and a controller.    *)
(***************************************************************************)
\* the configurations of the unit tests: generated for the host, or named and
\* routed to another device, with an offset already in place
LatencyConfigs ==
    {generate_config(HostName),
     [device_name |-> "Living Room", output_device |-> "hw:1,0",
      latency_offset_seconds |-> F32DivBy1000(F32FromInt(50))]}

LatencyInputs ==
    [cfg : LatencyConfigs, L : AllLatencies, override : ForcedLatencies,
     write_ok : BOOLEAN, restart_ok : BOOLEAN]

run_apply_latency ==
    /\ lat_out = None
    /\ lat_out' = Some(apply_latency(lat_in.cfg, F32FromInt(lat_in.L),
                                     OptMap(lat_in.override),
                                     lat_in.write_ok, lat_in.restart_ok))
    /\ UNCHANGED lat_in
    /\ UNCHANGED <<applyVars, lockVars, chirpVars, schedVars, sigVars>>

(***************************************************************************)
(* Chirp generator (chirp.rs), at the sample rate the service plays with   *)
(* (airsync-receiver-service.rs:39).  The samples are kept as runs: their  *)
(* kind and length, and for a sweep the instantaneous frequency of its     *)
(* phase at both ends.                                                     *)
(***************************************************************************)
ChirpSampleRate == 48000

\* f * 48000.0 in f32 (chirp.rs:9, 16: duration_s * sr).  48000 = 375 * 2^7;
\* m * 375 has 32 or 33 bits and is rounded to 24, the product taken in two
\* halves of m to stay below 2^31.
F32MulBySampleRate(f) ==
    IF f.m = 0 THEN f
    ELSE LET hi == f.m \div 4096
             lo == f.m % 4096
             s == IF f.m * 3 >= 34359739 THEN 9 ELSE 8
             q == hi * 375 * 2 ^ (12 - s) + (lo * 375) \div 2 ^ s
             r == (lo * 375) % 2 ^ s
             up == 2 * r > 2 ^ s \/ (2 * r = 2 ^ s /\ q % 2 = 1)
         IN F32Pack(f.neg, IF up THEN q + 1 ELSE q, f.e + 7 + s)

\* f as usize for f >= 0: the fraction is cut off
F32Trunc(f) ==
    IF f.m = 0 THEN 0
    ELSE IF f.e >= 0 THEN f.m * 2 ^ f.e
    ELSE f.m \div 2 ^ (0 - f.e)

\* chirp.rs:9, 16   (seconds * sr) as usize with seconds = ms as f32 / 1000.0
ChirpSamples(ms) == F32Trunc(F32MulBySampleRate(F32DivBy1000(F32FromInt(ms))))

\* faulty variant: the repetitions are taken as given
ChirpRepetitions_AsGiven(repetitions) == repetitions

\* chirp.rs:20   cfg.repetitions.max(1)
ChirpRepetitions(repetitions) == IF repetitions > 1 THEN repetitions ELSE 1

\* chirp.rs:8, 12   the instantaneous frequency (Hz, as a fraction) of
\* phase = 2 pi (start_freq t + 0.5 sweep_k t t / duration_s), with
\* sweep_k = (end_freq - start_freq) / duration_s, at t = p/q * duration_s:
\* start_freq + sweep_k t / duration_s
ChirpFreqAt(cfg, p, q) ==
    [num |-> cfg.start_freq * cfg.duration * q + 1000 * (cfg.end_freq - cfg.start_freq) * p,
     den |-> cfg.duration * q]

\* signal.rs:92-96   the same for mix_sweep: phase = 2 pi (start_freq t +
\* 0.5 k t t) with k = (end_freq - start_freq) / total_seconds:
\* start_freq + k t
SweepFreqAt(cfg, p, q) ==
    [num |-> cfg.start_freq * q + (cfg.end_freq - cfg.start_freq) * p, den |-> q]

RECURSIVE RunsLen(_)
\* Vec::len of the concatenated runs
RunsLen(runs) == IF runs = <<>> THEN 0 ELSE Head(runs).len + RunsLen(Tail(runs))

\* generate_chirp_samples (chirp.rs:4-24)
generate_chirp_samples(cfg) ==
    LET single == [kind |-> "sweep", len |-> ChirpSamples(cfg.duration),
                   from |-> IF cfg.duration = 0 THEN None ELSE Some(ChirpFreqAt(cfg, 0, 1)),
                   to |-> IF cfg.duration = 0 THEN None ELSE Some(ChirpFreqAt(cfg, 1, 1))]
        silence == [kind |-> "zeros", len |-> ChirpSamples(cfg.interval_ms),
                    from |-> None, to |-> None]
        out == [i \in 1..(2 * ChirpRepetitions(cfg.repetitions)) |->
                   IF i % 2 = 1 THEN single ELSE silence]
    IN [runs |-> out, len |-> RunsLen(out)]

\* the chirps generate_chirp_samples is called with
ChirpInputs ==
    [start_freq : {1000, 2000}, end_freq : {8000, 10000},
     duration : (0..MaxChirpMs) \cup {1000},
     repetitions : 0..MaxRepetitions,
     interval_ms : {0, 100, 400, 500}, amplitude : {None}]

\* one call of generate_chirp_samples
run_generate_chirp_samples ==
    /\ chirp_out = None
    /\ chirp_out' = Some(generate_chirp_samples(chirp_in))
    /\ UNCHANGED chirp_in
    /\ UNCHANGED <<applyVars, lockVars, latVars, schedVars, sigVars>>

(***************************************************************************)
(* Specifications.                                                         *)
(***************************************************************************)
\* no response sent yet
NoResponse == [status |-> 0, body |-> None]

\* no calibration/result call yet.  Besides the program's locals (pc, l,
\* outcome) the record keeps what the call was given and what it did: the
\* payload's latency_ms, the forced latency of the environment, the results
\* the writer and the controller returned, the text handed to the writer
\* and the order of the calls on the two collaborators (io).
ApplyIdle ==
    [pc |-> "idle", io |-> <<>>, outcome |-> None, latency_ms |-> None,
     forced |-> None, write_ok |-> None, restart_ok |-> None, written |-> None,
     l |-> None]

\* the service after main() built its state (airsync-receiver-service.rs:27-40)
InitService ==
    /\ config = generate_config(HostName)
    /\ conf_file = None
    /\ apply = ApplyIdle
    /\ result_response = NoResponse
    /\ settings_response = NoResponse
    /\ settings_io = <<>>
    /\ config_lock = 0
    /\ update_call = UpdateIdle
    /\ play_device = None

\* ReceiverState::new (http.rs:94): the slot is empty, nothing is spawned
InitScheduler ==
    /\ pending_playback = None
    /\ tasks = <<>>
    /\ now = StartTime
    /\ ticks = 0
    /\ events = <<>>
    /\ ready_calls = <<>>
    /\ slot_lock = 0

\* generate_structured_signal is entered (signal.rs:100-103)
InitSignal ==
    /\ sig_pc = "preroll"
    /\ cursor = 0
    /\ markers = <<>>
    /\ builder = [len |-> 0, waves |-> <<>>]
    /\ tone = 0
    /\ length_samples = 0
    /\ pcm = None

Init ==
    /\ InitService
    /\ InitScheduler
    /\ InitSignal
    /\ overflow_checks = TRUE
    /\ worker_threads = 1
    /\ lat_in = [cfg |-> generate_config(HostName), L |-> 0, override |-> None,
                 write_ok |-> TRUE, restart_ok |-> TRUE]
    /\ lat_out = None
    /\ chirp_in = ChirpDefault
    /\ chirp_out = None

\* a stand-alone apply_latency call on any input
InitLatency ==
    /\ InitService
    /\ InitScheduler
    /\ InitSignal
    /\ overflow_checks = TRUE
    /\ worker_threads = 1
    /\ lat_in \in LatencyInputs
    /\ lat_out = None
    /\ chirp_in = ChirpDefault
    /\ chirp_out = None

\* the service: calibration results, settings reads and updates, interleaved
NextApply ==
    \/ \E L \in SampleLatencies, ov \in ForcedLatencies : calibration_result(L, ov)
    \/ \E ok \in BOOLEAN : writer_write(ok)
    \/ \E ok \in BOOLEAN : controller_restart(ok)
    \/ get_settings
    \/ \E u \in SettingsPayloads, w \in BOOLEAN, r \in BOOLEAN : update_settings(u, w, r)

SpecApply == Init /\ [][NextApply]_vars

\* settings reads and updates alone
NextSettings ==
    \/ get_settings
    \/ \E u \in AllSettingsPayloads, w \in BOOLEAN, r \in BOOLEAN : update_settings(u, w, r)

SpecSettings == Init /\ [][NextSettings]_vars

\* a settings update under way, with settings reads and playbacks reading
\* the configuration at any point of it
NextAtomic ==
    \/ \E u \in AllSettingsPayloads : update_lock(u)
    \/ update_device_name
    \/ update_output_device
    \/ update_latency_offset
    \/ \E ok \in BOOLEAN : update_write(ok)
    \/ \E ok \in BOOLEAN : update_restart(ok)
    \/ get_settings
    \/ play_reads_device

SpecAtomic == Init /\ [][NextAtomic]_vars

NextLatency == run_apply_latency

SpecLatency == InitLatency /\ [][NextLatency]_vars

\* a stand-alone generate_chirp_samples call on any chirp
InitChirp ==
    /\ InitService
    /\ InitScheduler
    /\ InitSignal
    /\ overflow_checks = TRUE
    /\ worker_threads = 1
    /\ lat_in = [cfg |-> generate_config(HostName), L |-> 0, override |-> None,
                 write_ok |-> TRUE, restart_ok |-> TRUE]
    /\ lat_out = None
    /\ chirp_in \in ChirpInputs
    /\ chirp_out = None

NextChirp == run_generate_chirp_samples

SpecChirp == InitChirp /\ [][NextChirp]_vars

\* the scheduler, built in either profile, on a machine with one core or two
InitSched ==
    /\ InitService
    /\ InitScheduler
    /\ InitSignal
    /\ overflow_checks \in BOOLEAN
    /\ worker_threads \in WorkerCounts
    /\ lat_in = [cfg |-> generate_config(HostName), L |-> 0, override |-> None,
                 write_ok |-> TRUE, restart_ok |-> TRUE]
    /\ lat_out = None
    /\ chirp_in = ChirpDefault
    /\ chirp_out = None

NextSched ==
    \/ \E c \in Chirps, d \in RequestDelays : calibration_request(c, d)
    \/ \E tgt \in ReadyTargets : calibration_ready(tgt)
    \/ \E t \in DOMAIN tasks : task_start(t)
    \/ \E t \in DOMAIN tasks : task_wake(t)
    \/ \E t \in DOMAIN tasks, ok \in BOOLEAN : task_play(t, ok)
    \/ \E d \in TickSteps : Tick(d)

SpecSched == InitSched /\ [][NextSched]_vars

\* the scheduler with the Ready handler taken apart: Readys race for the slot
NextRace ==
    \/ \E c \in {ChirpTest}, d \in RequestDelays : calibration_request(c, d)
    \/ \E tgt \in RaceTargets : ready_arrive(tgt)
    \/ \E h \in DOMAIN ready_calls : ready_lock(h)
    \/ \E h \in DOMAIN ready_calls : ready_take(h)
    \/ \E h \in DOMAIN ready_calls : ready_spawn(h)
    \/ \E h \in DOMAIN ready_calls : ready_respond(h)
    \/ \E t \in DOMAIN tasks : task_start(t)
    \/ \E t \in DOMAIN tasks : task_play_begin(t)
    \/ \E t \in DOMAIN tasks : task_play_end(t, TRUE)

SpecRace == InitSched /\ [][NextRace]_vars

\* generate_structured_signal, block by block, then any sample of the map
NextSignal ==
    \/ mix_preroll
    \/ mix_click_a
    \/ mix_sweep_anchor
    \/ mix_tone
    \/ mix_click_b
    \/ mix_warmdown
    \/ pad_to_target
    \/ \E n \in PcmIndices : quantize(n)

SpecSignal == Init /\ [][NextSignal]_vars

(***************************************************************************)
(* Properties of the latency applier.                                      *)
(***************************************************************************)
\* the stand-alone call returned Ok(outcome)
LatReturned == lat_out # None /\ lat_out[1].pc = "returned"
LatOutcome == lat_out[1].outcome[1]
\* clamp on whole milliseconds
ClampMs(x) == IF x > 250 THEN 250 ELSE IF x < -250 THEN -250 ELSE x

\* C5 as stated: for every measured latency L in [-250, 250] without a forced
\* override, apply_latency returns was_clamped = false and
\* applied_offset_ms = -L (f32 equality).
C5_AppliedOffsetIsExactlyMinusL ==
    (LatReturned /\ lat_in.override = None /\ lat_in.L \in (-250)..250)
        => /\ ~LatOutcome.was_clamped
           /\ F32Eq(LatOutcome.applied_offset_ms, F32FromInt(-lat_in.L))

\* C5 amended: for every whole-millisecond L in [-250, 250] without a forced
\* override, was_clamped = false, applied_offset_ms has the sign opposite to
\* L and prints with three decimals as -L; it is the f32 -L itself except
\* for L = 127 and L = -127, where (-L / 1000) * 1000 is one ulp off.
C5_AppliedOffsetIsMinusLToThreeDecimals ==
    (LatReturned /\ lat_in.override = None /\ lat_in.L \in (-250)..250)
        => /\ ~LatOutcome.was_clamped
           /\ ParseMillis(FormatFixed3(LatOutcome.applied_offset_ms)) = -1000 * lat_in.L
           /\ (lat_in.L > 0 => LatOutcome.applied_offset_ms.neg)
           /\ (lat_in.L < 0 => ~LatOutcome.applied_offset_ms.neg)
           /\ (lat_in.L \notin {-127, 127}
                 => F32Eq(LatOutcome.applied_offset_ms, F32FromInt(-lat_in.L)))

\* latency_ms = -20.0 gave applied_offset_ms = +20.0, not clamped
C5_Witness ==
    /\ LatReturned /\ lat_in.override = None /\ lat_in.L = -20
    /\ ~LatOutcome.was_clamped
    /\ LatOutcome.applied_offset_ms = F32FromInt(20)

\* C6 as stated: for every measured latency L with |L| > 250, apply_latency
\* succeeds when write and restart succeed, was_clamped = true and
\* applied_offset_ms is -250 for L > 250 and +250 for L < -250.
C6_OutOfRangeIsClamped ==
    (lat_out # None /\ (lat_in.L > 250 \/ lat_in.L < -250)
       /\ lat_in.write_ok /\ lat_in.restart_ok)
        => /\ LatReturned
           /\ LatOutcome.was_clamped
           /\ F32Eq(LatOutcome.applied_offset_ms,
                    F32FromInt(IF lat_in.L > 250 THEN -250 ELSE 250))

\* C6 amended: the same, when no forced latency replaces the measured one.
C6_OutOfRangeIsClampedUnlessForced ==
    (lat_out # None /\ lat_in.override = None
       /\ (lat_in.L > 250 \/ lat_in.L < -250)
       /\ lat_in.write_ok /\ lat_in.restart_ok)
        => /\ LatReturned
           /\ LatOutcome.was_clamped
           /\ F32Eq(LatOutcome.applied_offset_ms,
                    F32FromInt(IF lat_in.L > 250 THEN -250 ELSE 250))

\* latency_ms = 800.0 gave applied_offset_ms = -250.0, clamped
C6_Witness ==
    /\ LatReturned /\ lat_in.override = None /\ lat_in.L = 800
    /\ LatOutcome.was_clamped
    /\ LatOutcome.applied_offset_ms = F32FromInt(-250)

\* C7: when the write succeeds and restart() returns an error, the apply
\* still returns the outcome it returns when the restart succeeds, and the
\* endpoint answers 200.
C7_RestartFailureIsNotFatal ==
    (apply.write_ok = Some(TRUE) /\ apply.restart_ok = Some(FALSE))
        => /\ apply.pc = "returned"
           /\ apply.outcome =
                 apply_latency(apply.l.cfg, apply.l.measured, apply.l.override,
                               TRUE, TRUE).outcome
           /\ result_response.status = 200

\* C8: when write() returns an error, the apply returns an error and no
\* outcome, the controller is not called in that apply, and the endpoint
\* answers with a 5xx status.
C8_WriteFailureIsFatal ==
    apply.write_ok = Some(FALSE)
        => /\ apply.pc = "failed"
           /\ apply.outcome = None
           /\ apply.restart_ok = None
           /\ apply.io = <<"write">>
           /\ result_response.status \in 500..599
           /\ result_response.body = None

C8_Witness ==
    /\ apply.write_ok = Some(FALSE)
    /\ apply.pc = "failed"
    /\ result_response.status = 500

\* C9: a successful apply made exactly one write and then exactly one
\* restart request, and the text it wrote carries the offset
\* -clamped_latency_ms / 1000 of that apply.
C9_OneWriteThenOneRestart ==
    apply.pc = "returned"
        => /\ apply.io = <<"write", "restart">>
           /\ apply.written # None
           /\ ParseMillis(apply.written[1].latency_offset)
                 = -ClampMs(UnwrapOr(apply.forced, apply.latency_ms[1]))

C9_Witness ==
    /\ apply.pc = "returned"
    /\ apply.latency_ms = Some(127) /\ apply.forced = None
    /\ apply.io = <<"write", "restart">>
    /\ apply.written[1].latency_offset = [neg |-> TRUE, millis |-> 127]

\* C10: when an apply returns successfully, the shared configuration holds
\* the offset that apply computed.
C10_SharedConfigHoldsAppliedOffset ==
    [][(apply.pc = "restart" /\ apply'.pc = "returned")
          => F32Eq(config'.latency_offset_seconds, apply'.l.offset)]_vars

\* C11: apply changes only the latency offset: for every input latency, the
\* device_name and output_device of the configuration that apply rendered
\* and persisted are those of the configuration passed in.
C11_ApplyKeepsNameAndDevice ==
    (lat_out # None /\ lat_out[1].written # None)
        => /\ lat_out[1].written[1].name = lat_in.cfg.device_name
           /\ lat_out[1].written[1].output_device = lat_in.cfg.output_device

\* a configuration named "Living Room" on hw:1,0 with offset 0.050 was applied
\* a latency of 55 ms: name and device persisted as given, the offset replaced
C11_Witness ==
    /\ lat_out # None /\ lat_in.L = 55 /\ lat_in.override = None
    /\ lat_in.cfg.device_name = "Living Room"
    /\ lat_in.cfg.latency_offset_seconds = F32DivBy1000(F32FromInt(50))
    /\ lat_out[1].written =
          Some([name |-> "Living Room", output_device |-> "hw:1,0",
                latency_offset |-> [neg |-> TRUE, millis |-> 55]])

\* the whole milliseconds apply_latency clamps and negates
LatEffectiveMs == UnwrapOr(lat_in.override, lat_in.L)
LatRendered == lat_out[1].written[1].latency_offset

\* C12 as stated: the rendered configuration carries the offset with three
\* decimals, and re-parsing the field yields the stored offset, for every
\* offset of the range [-0.250, 0.250] s in whole milliseconds; an applied
\* latency of 55 ms renders as -0.055 and one of 0 renders as 0.000.
C12_RoundTripAndZeroRendersUnsigned ==
    (lat_out # None /\ lat_out[1].written # None)
        => /\ ParseMillis(LatRendered) = -ClampMs(LatEffectiveMs)
           /\ F32Eq(ParseFixed3(LatRendered), lat_out[1].stored)
           /\ (LatEffectiveMs = 55 => LatRendered = [neg |-> TRUE, millis |-> 55])
           /\ (LatEffectiveMs = 0 => LatRendered = [neg |-> FALSE, millis |-> 0])

\* C12 amended: the same round trip; an applied latency of 0 stores the
\* offset -0.0 (the negation of 0.0), which renders with its sign, as -0.000.
C12_RoundTripAndZeroKeepsItsSign ==
    (lat_out # None /\ lat_out[1].written # None)
        => /\ ParseMillis(LatRendered) = -ClampMs(LatEffectiveMs)
           /\ F32Eq(ParseFixed3(LatRendered), lat_out[1].stored)
           /\ ParseFixed3(LatRendered) = lat_out[1].stored
           /\ (LatEffectiveMs = 55 => LatRendered = [neg |-> TRUE, millis |-> 55])
           /\ (LatEffectiveMs = 0 => LatRendered = [neg |-> TRUE, millis |-> 0])

\* the largest offset of the range, from a latency of -250 ms: rendered
\* 0.250, read back as the stored f32
C12_Witness ==
    /\ lat_out # None /\ lat_out[1].written # None
    /\ lat_in.override = None /\ lat_in.L = -250
    /\ LatRendered = [neg |-> FALSE, millis |-> 250]
    /\ ParseFixed3(LatRendered) = lat_out[1].stored
    /\ lat_out[1].stored = F32DivBy1000(F32FromInt(250))

\* what a payload asks of a field: its value when present, else the old one
Requested(field, old) == IF field = None THEN old ELSE field[1]

\* C18: a settings update sets exactly the fields present in the payload and
\* leaves the absent ones as they were; it then hands the rendered
\* configuration to the writer and, once that is persisted, requests one
\* restart; the settings it returns are the shared configuration after the
\* update.
C18_UpdateChangesExactlyThePayload ==
    [][\A u \in AllSettingsPayloads, w \in BOOLEAN, r \in BOOLEAN :
          update_settings(u, w, r)
              => /\ config'.device_name = Requested(u.device_name, config.device_name)
                 /\ config'.output_device = Requested(u.output_device, config.output_device)
                 /\ config'.latency_offset_seconds =
                       Requested(u.latency_offset_seconds, config.latency_offset_seconds)
                 /\ settings_io'[1] = "write"
                 /\ w => /\ conf_file' = Some(render_config_file(config'))
                         /\ settings_io' = <<"write", "restart">>
                 /\ (w /\ r)
                       => /\ settings_response'.status = 200
                          /\ settings_response'.body = Some(SettingsResponse(config'))]_vars

\* an update of the name alone went through: the name is new, device and
\* offset are the generated ones, the file holds the rendering, one write
\* and one restart were made, and the response is the shared configuration
C18_Witness ==
    /\ settings_io = <<"write", "restart">>
    /\ settings_response.status = 200
    /\ settings_response.body = Some(SettingsResponse(config))
    /\ config = [generate_config(HostName) EXCEPT !.device_name = "Living Room"]
    /\ conf_file = Some(render_config_file(config))

(***************************************************************************)
(* Properties of the calibration scheduler.                                *)
(***************************************************************************)
IsReady(i) == events[i].type = "ready"
IsRequest(i) == events[i].type = "request"
\* the play calls of task t
PlaysOf(t) == {i \in DOMAIN events : events[i].type = "play" /\ events[i].task = t}
PlayCount == CountEvents("play")
AcceptedReadys == {i \in DOMAIN events : IsReady(i) /\ events[i].status = 200}
\* the Request a Ready at position r consumes: the last one before it
LastRequestBefore(r) ==
    CHOOSE j \in 1..(r - 1) :
        IsRequest(j) /\ \A k \in (j + 1)..(r - 1) : ~IsRequest(k)
\* the task has run to its end
Terminated(t) == tasks[t].pc \in {"done", "panicked"}

\* C1: a Ready that arrives while the slot is empty is answered 400, spawns
\* no playback (no task, no play call) and leaves the slot empty.
C1_ReadyOnEmptySlotIsRejected ==
    [][(/\ pending_playback = None
        /\ Len(events') = Len(events) + 1
        /\ events'[Len(events')].type = "ready")
          => /\ events'[Len(events')].status = 400
             /\ events'[Len(events')].task = 0
             /\ pending_playback' = None
             /\ tasks' = tasks]_vars

\* a Ready was rejected: once with no Request before it, or after the
\* Request before it had been consumed
C1_Witness ==
    /\ \E i \in DOMAIN events : IsReady(i) /\ events[i].status = 400
    /\ pending_playback = None
    /\ PlayCount = Len(tasks)

\* C2: for a Request followed by a Ready without target_start_ms, play is
\* invoked exactly once, after the Ready, with the chirp of that Request.
C2_PlayedExactlyOnceWithRequestChirp ==
    \A t \in DOMAIN tasks :
        tasks[t].target_start_ms = None
            => /\ Cardinality(PlaysOf(t)) <= 1
               /\ Terminated(t) => Cardinality(PlaysOf(t)) = 1
               /\ \A i \in PlaysOf(t) :
                     /\ i > tasks[t].ready_ev
                     /\ events[i].chirp = events[LastRequestBefore(tasks[t].ready_ev)].chirp

\* C3: after two or more Requests with no Ready in between, the next accepted
\* Ready plays the chirp of the last of them only.
Superseding(r) ==
    \E j1 \in 1..(r - 1), j2 \in 1..(r - 1) :
        /\ j1 < j2 /\ IsRequest(j1) /\ IsRequest(j2)
        /\ \A k \in j1..(r - 1) : ~IsReady(k)
C3_LatestRequestWins ==
    \A t \in DOMAIN tasks :
        Superseding(tasks[t].ready_ev)
            => \A i \in PlaysOf(t) :
                  events[i].chirp = events[LastRequestBefore(tasks[t].ready_ev)].chirp

\* two Requests with different chirps, a Ready, and the second chirp played
C3_Witness ==
    \E t \in DOMAIN tasks :
        /\ Superseding(tasks[t].ready_ev)
        /\ \E j \in 1..(tasks[t].ready_ev - 1) :
              IsRequest(j) /\ events[j].chirp = ChirpTest
        /\ \E i \in PlaysOf(t) : events[i].chirp = ChirpDefault

\* C4: the number of play calls never exceeds the number of accepted Readys,
\* and every play call comes after the accepted Ready that spawned its task.
C4_NoPlayWithoutAcceptedReady ==
    /\ PlayCount <= Cardinality(AcceptedReadys)
    /\ \A i \in DOMAIN events :
          events[i].type = "play"
              => /\ events[i].task \in DOMAIN tasks
                 /\ tasks[events[i].task].ready_ev \in AcceptedReadys
                 /\ tasks[events[i].task].ready_ev < i

\* a Request armed the slot, the clock moved on, and nothing was played
C4_Witness ==
    /\ pending_playback # None
    /\ now > pending_playback[1].requested_at
    /\ AcceptedReadys = {}
    /\ PlayCount = 0

\* the play calls that returned an error
FailedPlays == {i \in DOMAIN events : events[i].type = "play" /\ events[i].status = 1}
\* at position i a Request is waiting in the slot: none of the Readys since
\* it arrived has consumed it
UnconsumedRequestBefore(i) ==
    \E j \in 1..(i - 1) : IsRequest(j) /\ \A k \in (j + 1)..(i - 1) : ~IsReady(k)

\* C13 as stated: when play returns an error, the Ready that triggered it has
\* been answered 200, play was invoked exactly once for that Ready (no
\* retry), and the slot is empty after the failure.
C13_FailedPlayLeavesIdle ==
    \A i \in FailedPlays :
        LET t == events[i].task
        IN /\ events[tasks[t].ready_ev].type = "ready"
           /\ events[tasks[t].ready_ev].status = 200
           /\ PlaysOf(t) = {i}
           /\ tasks[t].pc = "done"
           /\ (i = Len(events) => pending_playback = None)

\* C13 amended: the same, but the failure leaves the slot as it is: empty,
\* unless a Request that no Ready has consumed arrived while the task waited.
C13_FailedPlayLeavesSlotAlone ==
    \A i \in FailedPlays :
        LET t == events[i].task
        IN /\ events[tasks[t].ready_ev].type = "ready"
           /\ events[tasks[t].ready_ev].status = 200
           /\ PlaysOf(t) = {i}
           /\ tasks[t].pc = "done"
           /\ (i = Len(events)
                 => (pending_playback = None <=> ~UnconsumedRequestBefore(i)))

\* a Request, its Ready answered 200, one play that failed, the slot empty
C13_Witness ==
    /\ Len(events) = 3
    /\ IsRequest(1) /\ IsReady(2) /\ events[2].status = 200
    /\ FailedPlays = {3}
    /\ tasks[1].pc = "done"
    /\ pending_playback = None

\* the play calls for the Request at position j: those of the tasks spawned
\* by the Readys that consumed it
PlaysOfRequest(j) ==
    {i \in DOMAIN events :
        /\ events[i].type = "play"
        /\ LastRequestBefore(tasks[events[i].task].ready_ev) = j}

\* C14: a pending playback is consumed at most once: after a Ready the slot
\* is empty, a further Ready with no new Request in between is answered 400
\* and spawns nothing, and no Request's chirp is played more than once.
C14_PendingConsumedAtMostOnce ==
    /\ (Len(events) > 0 /\ IsReady(Len(events))) => pending_playback = None
    /\ \A r1 \in AcceptedReadys, r2 \in DOMAIN events :
          (r1 < r2 /\ IsReady(r2) /\ \A k \in (r1 + 1)..(r2 - 1) : ~IsRequest(k))
              => events[r2].status = 400 /\ events[r2].task = 0
    /\ \A j \in DOMAIN events :
          IsRequest(j) => Cardinality(PlaysOfRequest(j)) <= 1

\* one Request, a Ready that was accepted, a second Ready that was rejected,
\* and the Request's chirp played once
C14_Witness ==
    /\ Len(events) = 4
    /\ IsRequest(1) /\ IsReady(2) /\ IsReady(3)
    /\ events[2].status = 200 /\ events[3].status = 400
    /\ Cardinality(PlaysOfRequest(1)) = 1
    /\ Len(tasks) = 1

\* the Readys that were answered 200
AcceptedCalls == {h \in DOMAIN ready_calls : ready_calls[h].status = 200}
\* two or more Readys came in while the slot was armed by the one Request,
\* and all of them have been answered
RaceOver ==
    /\ CountEvents("request") = 1
    /\ Len(ready_calls) >= 2
    /\ \A h \in DOMAIN ready_calls : ready_calls[h].armed /\ ready_calls[h].pc = "done"

\* C19: when two Readys race for one armed Request, exactly one of them is
\* answered 200 and the others 400, and play is invoked exactly once for
\* that Request: one task is spawned, and when it has ended it has called
\* play once.
C19_OneRacingReadyWinsAndPlaysOnce ==
    RaceOver
        => /\ Cardinality(AcceptedCalls) = 1
           /\ \A h \in DOMAIN ready_calls : ready_calls[h].status \in {200, 400}
           /\ Len(tasks) = 1
           /\ Cardinality(PlaysOf(1)) <= 1
           /\ Terminated(1) => Cardinality(PlaysOf(1)) = 1

MarkerOrder ==
    <<"warmup", "click_a", "sweep_anchor", "chirp_1", "chirp_2", "chirp_3", "chirp_4",
      "chirp_5", "chirp_6", "chirp_7", "click_b", "warmdown">>
\* every block has run and the specification is filled in
SignalBuilt == sig_pc \in {"pcm", "done"}
MarkerEnd(i) == markers[i].start_sample + markers[i].duration_samples

\* C15: the markers of the signal are strictly increasing in start_sample and
\* come in the order warmup, click_a, sweep_anchor, chirp_1 .. chirp_7,
\* click_b, warmdown.
C15_MarkersStrictlyIncreasing ==
    /\ Len(markers) <= Len(MarkerOrder)
    /\ \A i \in DOMAIN markers : markers[i].id = MarkerOrder[i]
    /\ \A i \in DOMAIN markers :
          i > 1 => markers[i - 1].start_sample < markers[i].start_sample
    /\ SignalBuilt => Len(markers) = Len(MarkerOrder)

\* the twelve markers are out: chirp_1 starts at sample 33696 and the tones
\* follow each other 18240 samples apart
C15_Witness ==
    /\ SignalBuilt
    /\ Len(markers) = 12
    /\ markers[1].start_sample = 0
    /\ markers[4].start_sample = 33696
    /\ \A i \in 5..10 : markers[i].start_sample = markers[i - 1].start_sample + 18240

\* C16: every marker lies inside the signal: start_sample + duration_samples
\* is at most length_samples (and, while the signal is built, at most the
\* length of the sample vector).
C16_MarkersInsideSignal ==
    /\ \A i \in DOMAIN markers : MarkerEnd(i) <= builder.len
    /\ SignalBuilt => /\ length_samples = builder.len
                      /\ \A i \in DOMAIN markers : MarkerEnd(i) <= length_samples

\* the last marker, warmdown, ends at sample 185088 of 225600
C16_Witness ==
    /\ sig_pc = "pcm"
    /\ Len(markers) = 12 /\ markers[12].id = "warmdown"
    /\ MarkerEnd(12) = 185088
    /\ length_samples = 225600

\* C17: at every sample the amplitudes of the waves over it add up to at
\* most 0.95 of full scale, so the clip at 0.97 changes no sample and the
\* PCM value stays within 0.95 * i16::MAX.
C17_PeakWithinHeadroom ==
    pcm # None
        => /\ pcm[1].peak * 100 <= 95 * FullScale
           /\ Clip(pcm[1].peak) = pcm[1].peak
           /\ pcm[1].out * 100 <= 95 * I16Max

\* a sample of click_a, which lies on the pre-roll hum: 0.72 + 0.09
C17_Witness ==
    /\ pcm # None
    /\ pcm[1].n = ms_to_samples(320) + 100
    /\ pcm[1].peak = ClickAAmp + PrerollAmp
    /\ pcm[1].out = 26541

\* C27: the signal is zero-padded to at least the target length:
\* length_samples is the larger of 225 600 (4 700 ms at 48 000 Hz) and the
\* end of the last event, it is the number of PCM samples written, and it
\* lies between 4 000 ms and 5 000 ms worth of samples.
C27_PaddedToTargetLength ==
    SignalBuilt
        => /\ length_samples =
                 (IF MarkerEnd(Len(markers)) > 225600 THEN MarkerEnd(Len(markers)) ELSE 225600)
           /\ sig_pc = "pcm" => Cardinality(PcmIndices) = length_samples
           /\ pcm # None => pcm[1].n < length_samples
           /\ length_samples >= ms_to_samples(4000)
           /\ length_samples <= ms_to_samples(5000)

\* the events end at sample 185088, the signal was padded beyond that, and a
\* sample of the padding was written as PCM
C27_Witness ==
    /\ sig_pc = "done"
    /\ cursor = 185088
    /\ length_samples > cursor
    /\ pcm # None /\ pcm[1].n >= cursor /\ pcm[1].out = 0

(***************************************************************************)
(* Timing of the playback task (http.rs:186-200).                          *)
(***************************************************************************)
\* the target the task is meant to wait for: the Ready's target_start_ms, else
\* the clock at task start plus the Request's delay (the sum as a number, not
\* as a u64)
IntendedTarget(tk) ==
    IF tk.target_start_ms # None THEN tk.target_start_ms[1] ELSE tk.now + tk.delay_ms

\* task t invokes play in this step
PlayStep(t) == tasks[t].pc = "play" /\ tasks'[t].pc # "play"

\* C21: play is never invoked before the target: when the target (the Ready's
\* target_start_ms, else the clock at task start plus the Request's delay_ms)
\* is ahead of the clock at task start, the clock at the play call is at or
\* past it, and otherwise the task did not wait.
C21_PlayNotBeforeTarget ==
    [][\A t \in DOMAIN tasks :
          PlayStep(t) =>
             /\ IntendedTarget(tasks[t]) > tasks[t].now => now >= IntendedTarget(tasks[t])
             /\ IntendedTarget(tasks[t]) <= tasks[t].now => tasks[t].wait_ms = 0]_vars

\* C22: no accepted Ready is dropped: its task is on its way to the play call
\* (spawned, waiting or about to play, with no play call yet) or has ended
\* after exactly one play call; it never ends without one, whatever Requests
\* and Readys arrive meanwhile.
C22_AcceptedReadyEndsInOnePlay ==
    \A r \in AcceptedReadys :
        /\ events[r].task \in DOMAIN tasks
        /\ LET t == events[r].task
           IN \/ /\ tasks[t].pc \in {"spawned", "sleeping", "play"}
                 /\ PlaysOf(t) = {}
              \/ /\ tasks[t].pc = "done"
                 /\ Cardinality(PlaysOf(t)) = 1

(***************************************************************************)
(* The protocol during a wait or a playback (http.rs:174-204).             *)
(***************************************************************************)
\* the tasks inside their wait or inside playback.play
Waiting == {t \in DOMAIN tasks : tasks[t].pc = "sleeping"}
Playing == {t \in DOMAIN tasks : tasks[t].pc = "playing"}
\* the Ready handler that spawned task t has returned its response
Responded(t) ==
    \E h \in DOMAIN ready_calls : ready_calls[h].task = t /\ ready_calls[h].pc = "done"

\* C23: the wait and the playback never block the protocol: the slot's lock
\* is held only inside a handler's lock().take() statement, never by a task
\* that waits or plays; while tasks wait or play a worker thread is left to
\* serve a Request, a Ready or a time query, so the call does not wait for a
\* playback to end; and play is invoked only after the Ready that spawned
\* the task has been answered.
C23_PlaybackNeverBlocksProtocol ==
    /\ slot_lock # 0 => ready_calls[slot_lock].pc = "take"
    /\ Waiting \cup Playing # {} => Cardinality(Playing) < worker_threads
    /\ \A t \in DOMAIN tasks :
          (t \in Playing \/ PlaysOf(t) # {}) => Responded(t)

(***************************************************************************)
(* Readers of the shared configuration (http.rs:322, 352-371).             *)
(***************************************************************************)
\* while an update is under way: the configurations a reader may see, the
\* one before the update and the one with all of its fields applied
Untorn ==
    {update_call.before[1], MergeSettings(update_call.before[1], update_call.update[1])}

\* C24: a reader never sees a part of an update: a settings read returns,
\* and a playback picks its output device from, the configuration as it was
\* before the update under way or as it is with all fields of the update
\* applied.
C24_ReadersSeeNoneOrAllOfAnUpdate ==
    [][/\ (update_call.pc # "idle" /\ update_call' = update_call
            /\ settings_response' # settings_response)
           => settings_response'.body[1] \in Untorn
       /\ (update_call.pc # "idle" /\ play_device' # play_device)
           => play_device'[1] \in {c.output_device : c \in Untorn}
       /\ (update_call.pc = "restart" /\ update_call'.pc = "idle")
           => config = MergeSettings(update_call.before[1], update_call.update[1])]_vars

\* an update of name and output device has returned, and afterwards a
\* settings read and a playback both saw the two new values
C24_Witness ==
    /\ update_call.pc = "idle"
    /\ settings_io = <<>>
    /\ settings_response.status = 200
    /\ settings_response.body[1].device_name = "Living Room"
    /\ settings_response.body[1].output_device = "hdmi"
    /\ play_device = Some("hdmi")
    /\ conf_file # None

(***************************************************************************)
(* Properties of the chirp generator.                                      *)
(***************************************************************************)
\* floor(ms * sample_rate / 1000)
WholeSamples(ms) == (ms * ChirpSampleRate) \div 1000
\* the sweep durations up to 128 ms whose f32 product falls short of a whole
\* number of samples
ShortDurations == {9, 18, 36, 72, 83}

\* the output is max(repetitions, 1) times a sweep of n_sweep samples and
\* zeros of n_zeros samples, and repetitions = 0 gives what 1 gives
ChirpShape(n_sweep, n_zeros) ==
    LET out == chirp_out[1]
        reps == IF chirp_in.repetitions > 1 THEN chirp_in.repetitions ELSE 1
    IN /\ Len(out.runs) = 2 * reps
       /\ \A i \in DOMAIN out.runs :
             /\ out.runs[i].kind = IF i % 2 = 1 THEN "sweep" ELSE "zeros"
             /\ out.runs[i].len = IF i % 2 = 1 THEN n_sweep ELSE n_zeros
       /\ out.len = reps * (n_sweep + n_zeros)
       /\ chirp_in.repetitions = 0
             => out = generate_chirp_samples([chirp_in EXCEPT !.repetitions = 1])

\* C25: the output is max(repetitions, 1) repetitions of
\* floor(duration_ms * sample_rate / 1000) sweep samples followed by
\* floor(interval_ms * sample_rate / 1000) zeros, so its length is
\* max(repetitions, 1) times their sum, and repetitions = 0 gives the
\* output of repetitions = 1.
C25_RepetitionsOfWholeSampleCounts ==
    chirp_out # None
        => ChirpShape(WholeSamples(chirp_in.duration), WholeSamples(chirp_in.interval_ms))

\* C25, amended: the same with the sample counts as f32 yields them: one
\* sample short of the floor for the sweeps of 9, 18, 36, 72 and 83 ms.
C25_RepetitionsOfF32SampleCounts ==
    chirp_out # None
        => ChirpShape(WholeSamples(chirp_in.duration)
                         - (IF chirp_in.duration \in ShortDurations THEN 1 ELSE 0),
                      WholeSamples(chirp_in.interval_ms))

\* repetitions = 0 of a 9 ms sweep and 500 ms of silence: one repetition of
\* 431 (not 432) and 24000 samples
C25_Witness ==
    /\ chirp_out # None
    /\ chirp_in.repetitions = 0 /\ chirp_in.duration = 9 /\ chirp_in.interval_ms = 500
    /\ Len(chirp_out[1].runs) = 2
    /\ chirp_out[1].len = 431 + 24000

\* two fractions are the same number
SameFreq(a, b) == a.num * b.den = b.num * a.den

\* C26: every repetition is a linear sweep from start_freq to end_freq over
\* duration_ms, with the phase of the structured signal's sweep: its
\* instantaneous frequency is start_freq at t = 0 and end_freq at
\* t = duration_s, for every duration.
C26_SweepRunsFromStartToEndFreq ==
    (chirp_out # None /\ chirp_in.duration > 0)
        => \A i \in DOMAIN chirp_out[1].runs :
              chirp_out[1].runs[i].kind = "sweep"
                  => /\ SameFreq(chirp_out[1].runs[i].from[1], SweepFreqAt(chirp_in, 0, 1))
                     /\ SameFreq(chirp_out[1].runs[i].to[1], SweepFreqAt(chirp_in, 1, 1))
                     /\ SameFreq(chirp_out[1].runs[i].to[1],
                                 [num |-> chirp_in.end_freq, den |-> 1])

(***************************************************************************)
(* Calibration results and settings updates on the one configuration       *)
(* (http.rs:127-135, 356-371; calibration/mod.rs:98-104).                  *)
(***************************************************************************)
\* C28: a calibration offset survives a later settings change: when the
\* configuration file holds what a successful apply wrote, a successful
\* settings update whose payload has no latency_offset_seconds persists a
\* configuration with that same latency offset.
C28_UpdateKeepsCalibratedOffset ==
    [][\A u \in SettingsPayloads :
          (/\ u.latency_offset_seconds = None
           /\ apply.pc = "returned"
           /\ conf_file = Some(apply.l.rendered)
           /\ update_settings(u, TRUE, TRUE))
             => conf_file'[1].latency_offset = FormatFixed3(apply.l.offset)]_vars

\* C29: no update is lost between the two writers of the configuration
\* file: when a calibration apply has returned successfully and the last
\* settings call was a successful update, the configuration file holds the
\* device_name and output_device that update answered with.
C29_FileHoldsUpdatedNameAndDevice ==
    (/\ apply.pc = "returned"
     /\ settings_io = <<"write", "restart">>
     /\ settings_response.status = 200)
        => /\ conf_file # None
           /\ conf_file[1].name = settings_response.body[1].device_name
           /\ conf_file[1].output_device = settings_response.body[1].output_device

\* C30: a failed settings update leaves the shared configuration as it was:
\* when the write or the restart fails and the endpoint answers 500, the
\* configuration a later settings read returns is the one before the update.
C30_FailedUpdateLeavesConfig ==
    [][\A u \in AllSettingsPayloads, w \in BOOLEAN, r \in BOOLEAN :
          (~(w /\ r) /\ update_settings(u, w, r))
             => /\ settings_response'.status = 500
                /\ SettingsResponse(config') = SettingsResponse(config)]_vars

====
